---- MODULE Spec2Model ----
(***************************************************************************)
(* A model of app.py, the ytjobs.co job scraper: the polling loop of       *)
(* main(), the two CSV logs it appends to, and the functions it calls.     *)
(*                                                                         *)
(* The browser, the site and the file system are the environment: what a   *)
(* page holds, which call raises and how much of a write reaches the disk  *)
(* are chosen with \E from small sets.  The clock is modelled at the       *)
(* granularity of a calendar day.                                          *)
(***************************************************************************)
EXTENDS Integers, Sequences, FiniteSets, TLC

VARIABLES
    pc,                 \* where main() stands
    day,                \* the current calendar date (day of January 2024)
    history,            \* the file CSV_FILE_NAME
    todayLog,           \* the file TODAY_JOBS_FILE
    previous_jobs,      \* main: the in-memory set of titles
    sessions,           \* browser sessions created and not yet quit
    job_links,          \* main: the links collected in this cycle
    idx,                \* main: position of the for loop in job_links
    job_data,           \* main: the record scrape_job_details returned
    new_job_entries,    \* main: records accepted in this cycle
    todays_job_entries, \* main: accepted records classified posted today
    today_str,          \* main: the date string taken before the for loop
    cycles,             \* polling cycles started
    arg,                \* the input of a function run on its own
    ret,                \* and what it returned
    clicks,             \* click_see_more_button: the clicks made
    scroll_attempts,    \* scroll_to_load_all: the scrolls that changed the height
    last_height         \* scroll_to_load_all: the height read before the scroll

vars == <<pc, day, history, todayLog, previous_jobs, sessions, job_links, idx,
          job_data, new_job_entries, todays_job_entries, today_str, cycles,
          arg, ret, clicks, scroll_attempts, last_height>>

-----------------------------------------------------------------------------
(* Bounds *)

MaxDay == 3         \* the clock runs from January 2 to January MaxDay
MaxCycles == 2      \* polling cycles in one behaviour
MaxCards == 4       \* job cards on a listing page given to collect_job_links
MaxBatch == 2       \* records in a batch given to a save function on its own
MaxRows == 3        \* rows in a log before a save function is called on its own
MaxFileRows == 3    \* rows under the header of a log given to an identity load
MaxTokens == 3      \* tokens in a raw date given to parse_and_format_date
MaxHeight == 3      \* the document heights a listing page can have

-----------------------------------------------------------------------------
(* Values *)

NA == "N/A"

Links == {"job/1", "job/2"}

Titles == {"Editor", "Colorist"}

Range(s) == {s[i] : i \in 1..Len(s)}

Min(a, b) == IF a < b THEN a ELSE b

\* Sequences over S of length at most n.
SeqUpTo(S, n) == UNION {[1..m -> S] : m \in 0..n}

Days == 2..MaxDay

\* strftime("%m-%d-%Y") of a day of January 2024.
DayStr(d) == "01-0" \o ToString(d) \o "-2024"

\* datetime.now().strftime("%Y-%m-%d %H:%M:%S"): the program never reads the
\* column back, and the model writes the same text in every row.
Timestamp == "<scrape time>"

-----------------------------------------------------------------------------
(* parse_and_format_date.  A raw date is a sequence of tokens: the marker   *)
(* "Posted on:", the words Today and Yesterday, a date written in some      *)
(* format, or other text.                                                  *)

Marker == [k |-> "Posted on:"]

TodayTok == [k |-> "Today"]

YesterdayTok == [k |-> "Yesterday"]

\* Day d written in format f, e.g. AbsTok("%b %d %Y", 2) is "Jan 02 2024".
AbsTok(f, d) == [k |-> "abs", fmt |-> f, d |-> d]

OtherTok == [k |-> "3 days ago"]

\* The formats tried, in order.
date_formats == <<"%b %d %Y", "%B %d %Y", "%m/%d/%Y", "%m-%d-%Y">>

\* raw_date.replace("Posted on:", "").strip()
StripMarker(raw_date) == SelectSeq(raw_date, LAMBDA t : t # Marker)

\* datetime.strptime(date_str, fmt) succeeds: the whole string is one date
\* written in that format.
Strptime(date_str, fmt) ==
    /\ Len(date_str) = 1
    /\ date_str[1].k = "abs"
    /\ date_str[1].fmt = fmt

\* parse_and_format_date testing for "Yesterday" before "Today".
ParseYesterdayFirst(raw_date, now) ==
    LET date_str == StripMarker(raw_date)
        hits == {j \in 1..Len(date_formats) : Strptime(date_str, date_formats[j])}
    IN  IF YesterdayTok \in Range(date_str) THEN DayStr(now - 1)
        ELSE IF TodayTok \in Range(date_str) THEN DayStr(now)
        ELSE IF hits # {} THEN DayStr(date_str[1].d)
        ELSE NA

parse_and_format_date(raw_date, now) ==
    LET date_str == StripMarker(raw_date)
        hits == {j \in 1..Len(date_formats) : Strptime(date_str, date_formats[j])}
    IN  IF TodayTok \in Range(date_str) THEN DayStr(now)
        ELSE IF YesterdayTok \in Range(date_str) THEN DayStr(now - 1)
        ELSE IF hits # {} THEN DayStr(date_str[1].d)
        ELSE NA

-----------------------------------------------------------------------------
(* collect_job_links.  A card holds an anchor with an href, an anchor with  *)
(* no href, no anchor at all (NoSuchElementException), or raises something  *)
(* else when it is read.                                                   *)

HrefCard(l) == [k |-> "href", href |-> l]

NoHrefCard == [k |-> "nohref"]

NoAnchorCard == [k |-> "noanchor"]

ErrorCard == [k |-> "error"]

CardKinds == {HrefCard(l) : l \in Links} \cup {NoHrefCard, NoAnchorCard, ErrorCard}

\* CollectFrom without the test "job_link not in job_links".
RECURSIVE CollectFromNoDedup(_, _, _)
CollectFromNoDedup(job_cards, n, links) ==
    IF n > Len(job_cards) THEN links
    ELSE LET card == job_cards[n]
         IN  IF card.k = "href"
             THEN CollectFromNoDedup(job_cards, n + 1, Append(links, card.href))
             ELSE CollectFromNoDedup(job_cards, n + 1, links)

\* One pass of the for loop over job_cards, job_links being the list so far.
RECURSIVE CollectFrom(_, _, _)
CollectFrom(job_cards, n, links) ==
    IF n > Len(job_cards) THEN links
    ELSE LET card == job_cards[n]
         IN  IF card.k = "href" /\ card.href \notin Range(links)
             THEN CollectFrom(job_cards, n + 1, Append(links, card.href))
             ELSE CollectFrom(job_cards, n + 1, links)

\* found is FALSE when find_elements itself raises.
collect_job_links(job_cards, found) ==
    IF found THEN CollectFrom(job_cards, 1, <<>>) ELSE <<>>

-----------------------------------------------------------------------------
(* scrape_job_details.  A detail page, as BeautifulSoup sees it, holds or   *)
(* lacks an h1, a div with "Posted on:" and a div.ql-editor.  raises names  *)
(* the step that raises, if any.                                           *)

Page(h, hd, r, d) == [h1 |-> h, hasDate |-> hd, rawDate |-> r, desc |-> d]

NoElement == "<none>"

\* get_text(strip=True)
Strip(text) ==
    IF text = " Editor " THEN "Editor"
    ELSE IF text = " Cut reels " THEN "Cut reels"
    ELSE text

ScrapeSteps == <<"get", "wait", "page_source", "title", "date", "description">>

Raises == {"nothing", "get", "wait_timeout", "wait", "page_source", "title",
           "date", "description"}

\* The position in ScrapeSteps of the step that raises; 7 when none does.
RaisesAt(raises) ==
    IF raises = "nothing" THEN Len(ScrapeSteps) + 1
    ELSE IF raises = "wait_timeout" THEN 2
    ELSE CHOOSE j \in 1..Len(ScrapeSteps) : ScrapeSteps[j] = raises

\* scrape_job_details returning the initial record whenever a step raises.
ScrapeAllOrNothing(job_link, page, raises, now) ==
    IF raises = "nothing"
    THEN [title |-> IF page.h1 # NoElement THEN Strip(page.h1) ELSE NA,
          link |-> job_link,
          date |-> IF page.hasDate
                   THEN parse_and_format_date(page.rawDate, now) ELSE NA,
          description |-> IF page.desc # NoElement THEN Strip(page.desc) ELSE NA]
    ELSE [title |-> NA, link |-> job_link, date |-> NA, description |-> NA]

scrape_job_details(job_link, page, raises, now) ==
    LET stop == RaisesAt(raises)
    IN  [title |-> IF stop > 4 /\ page.h1 # NoElement THEN Strip(page.h1) ELSE NA,
         link |-> job_link,
         date |-> IF stop > 5 /\ page.hasDate
                  THEN parse_and_format_date(page.rawDate, now) ELSE NA,
         description |-> IF stop > 6 /\ page.desc # NoElement
                         THEN Strip(page.desc) ELSE NA]

-----------------------------------------------------------------------------
(* The two logs.  A file is absent, or holds the rows written so far, each  *)
(* row the list of its fields.                                             *)

NoFile == [exists |-> FALSE, rows |-> <<>>]

HistoryHeader == <<"Title", "Link", "Date", "Description", "Scrape Timestamp">>

TodayHeader == <<"Application URL", "Name", "Date Posted">>

HistoryRow(job) ==
    <<job.title, job.link, job.date, job.description, Timestamp>>

TodayRow(job) == <<job.link, job.title, job.date>>

\* The rows of a log that are not its header.
DataRows(file, header) == SelectSeq(file.rows, LAMBDA r : r # header)

\* The first fields of the data rows: the titles of the history log, the
\* links of the today log.
Keys(file, header) == {r[1] : r \in Range(DataRows(file, header))}

NoDuplicateKeys(file, header) ==
    LET rows == DataRows(file, header)
    IN  \A a, b \in 1..Len(rows) : rows[a][1] = rows[b][1] => a = b

\* What the read loop shared by main and save_todays_jobs builds: the reader
\* yields `yielded` rows and then raises (or ends, when it yields them all);
\* the first row is skipped as the header, an empty row is skipped.
FirstFields(rows, yielded) ==
    {rows[j][1] : j \in {m \in 2..Min(yielded, Len(rows)) : rows[m] # <<>>}}

\* main, before the loop: the titles loaded from the history log.
LoadPreviousJobs(file, yielded) ==
    IF file.exists THEN FirstFields(file.rows, yielded) ELSE {}

\* save_todays_jobs: the links loaded from the today log.
LoadExistingUrls(file, yielded) ==
    IF file.exists THEN FirstFields(file.rows, yielded) ELSE {}

\* A with-block that opened the file in write mode: the lines replace the rows.
Overwritten(file, lines, written) ==
    [exists |-> TRUE, rows |-> SubSeq(lines, 1, written)]

\* What a with-block that opened the file in append mode leaves behind when
\* `written` of the lines it set out to write reach the file before a write
\* raises (all of them, when none does).
Appended(file, lines, written) ==
    [exists |-> TRUE, rows |-> file.rows \o SubSeq(lines, 1, written)]

\* The lines save_to_csv sets out to write.
HistoryLines(file, job_entries) ==
    (IF file.exists THEN <<>> ELSE <<HistoryHeader>>)
        \o [j \in 1..Len(job_entries) |-> HistoryRow(job_entries[j])]

\* save_to_csv passing over the records whose title the log already holds.
SaveToCsvSkippingKnown(file, job_entries, opened, written) ==
    LET fresh == SelectSeq(job_entries,
                           LAMBDA j : j.title \notin Keys(file, HistoryHeader))
        lines == HistoryLines(file, fresh)
    IN  IF opened THEN Appended(file, lines, Min(written, Len(lines))) ELSE file

\* opened is FALSE when open() raises.
save_to_csv(file, job_entries, opened, written) ==
    IF opened
    THEN Appended(file, HistoryLines(file, job_entries), written)
    ELSE file

\* The for loop of save_todays_jobs from entry n on: the rows it writes,
\* existing_urls being the set so far.
RECURSIVE TodayRowsFrom(_, _, _)
TodayRowsFrom(job_entries, n, existing_urls) ==
    IF n > Len(job_entries) THEN <<>>
    ELSE LET job == job_entries[n]
         IN  IF job.link \notin existing_urls
             THEN <<TodayRow(job)>>
                      \o TodayRowsFrom(job_entries, n + 1, existing_urls \cup {job.link})
             ELSE TodayRowsFrom(job_entries, n + 1, existing_urls)

\* The lines save_todays_jobs sets out to write.
TodayLines(file, job_entries, yielded) ==
    (IF file.exists THEN <<>> ELSE <<TodayHeader>>)
        \o TodayRowsFrom(job_entries, 1, LoadExistingUrls(file, yielded))

save_todays_jobs(file, job_entries, yielded, opened, written) ==
    IF opened
    THEN Appended(file, TodayLines(file, job_entries, yielded), written)
    ELSE file

-----------------------------------------------------------------------------
(* main.  pc names the scheduler's state: Idle at the top of the while     *)
(* loop, Exhausting in load_all_jobs, Collecting in collect_job_links,     *)
(* Extracting at the head of the for loop, Classifying after               *)
(* scrape_job_details, Persisting at the two saves, SessionClosed at the   *)
(* finally clause, Sleeping in time.sleep, Terminated when an exception    *)
(* has left main.                                                          *)

NoJob == [title |-> NA, link |-> NA, date |-> NA, description |-> NA]

\* What the site serves to a polling cycle: one job title, on any link.
SiteTitles == {"Editor"}

SiteListings == SeqUpTo({HrefCard(l) : l \in Links} \cup {NoAnchorCard}, 2)

SitePages ==
    {Page(h, hd, <<Marker, TodayTok>>, "Cut reels") : h \in SiteTitles, hd \in BOOLEAN}

\* Any of them may be served for any link on any day.
SitePagesOf == [l \in Links, d \in Days |-> SitePages]

SiteRaises == {"nothing", "wait_timeout"}

SetupOutcomes == {"ok", "no_session", "get_raises"}

LoadOutcomes == {"returns", "raises"}

cycleVars == <<job_links, idx, job_data, new_job_entries, todays_job_entries,
               today_str>>

fileVars == <<history, todayLog>>

\* The locals of a cycle as a new process holds them.  After the saves they
\* are dead (each is assigned again before it is next read), and the model
\* gives them these values there too.
ResetCycleVars ==
    /\ job_links' = <<>>
    /\ idx' = 1
    /\ job_data' = NoJob
    /\ new_job_entries' = <<>>
    /\ todays_job_entries' = <<>>
    /\ today_str' = NA

\* The locals of load_all_jobs's two phases, as they are before it is called.
PhasesNotStarted ==
    /\ clicks = 0
    /\ scroll_attempts = 0
    /\ last_height = 0

fnVars == <<arg, ret, clicks, scroll_attempts, last_height>>

\* setup_driver, called outside the try block: when webdriver.Chrome raises
\* no session exists; when driver.get(URL) raises the session exists and the
\* exception leaves main with it.
SetupDriver(outcomes) ==
    /\ pc = "Idle"
    /\ cycles < MaxCycles
    /\ cycles' = cycles + 1
    /\ \E o \in outcomes :
          /\ sessions' = IF o = "no_session" THEN sessions ELSE sessions + 1
          /\ pc' = IF o = "ok" THEN "Exhausting" ELSE "Terminated"
    /\ UNCHANGED <<day, fileVars, previous_jobs, cycleVars, fnVars>>

\* load_all_jobs: the click phase catches what it raises, the scroll phase
\* does not, and the except clause of main then ends the cycle.
LoadAllJobs(outcomes) ==
    /\ pc = "Exhausting"
    /\ \E o \in outcomes :
          pc' = IF o = "returns" THEN "Collecting" ELSE "SessionClosed"
    /\ UNCHANGED <<day, fileVars, previous_jobs, sessions, cycleVars, cycles,
                   fnVars>>

\* collect_job_links and the three assignments before the for loop.
CollectLinks(listings, finds) ==
    /\ pc = "Collecting"
    /\ \E job_cards \in listings, found \in finds :
          job_links' = collect_job_links(job_cards, found)
    /\ new_job_entries' = <<>>
    /\ todays_job_entries' = <<>>
    /\ today_str' = DayStr(day)
    /\ idx' = 1
    /\ pc' = "Extracting"
    /\ UNCHANGED <<day, fileVars, previous_jobs, sessions, job_data, cycles,
                   fnVars>>

\* The head of the for loop: the loop ends, or the link is one of
\* new_job_entries and is passed over, or the link is scraped.
\* pagesOf[l, d] are the pages the site may serve for link l on day d.
Scrape(pagesOf, raisesSet) ==
    /\ pc = "Extracting"
    /\ IF idx > Len(job_links)
       THEN /\ pc' = "Persisting"
            /\ UNCHANGED <<idx, job_data>>
       ELSE IF job_links[idx] \in {j.link : j \in Range(new_job_entries)}
       THEN /\ idx' = idx + 1
            /\ UNCHANGED <<pc, job_data>>
       ELSE /\ \E page \in pagesOf[job_links[idx], day], raises \in raisesSet :
                  job_data' = scrape_job_details(job_links[idx], page, raises, day)
            /\ pc' = "Classifying"
            /\ UNCHANGED idx
    /\ UNCHANGED <<day, fileVars, previous_jobs, sessions, job_links,
                   new_job_entries, todays_job_entries, today_str, cycles,
                   fnVars>>

\* The test on previous_jobs made on the link instead of the title.
IsNewJobByLink(job, seen) == job.link \notin seen

\* The test on previous_jobs.
IsNewJob(job, seen) == job.title \notin seen

\* The date test letting a record with no date through.
PostedTodayOrUnknown(job, date) == job.date = date \/ job.date = NA

\* The test that puts an accepted record in todays_job_entries.
PostedToday(job, date) == job.date = date

\* The body of the for loop after scrape_job_details.
Classify ==
    /\ pc = "Classifying"
    /\ IF IsNewJob(job_data, previous_jobs)
       THEN /\ new_job_entries' = Append(new_job_entries, job_data)
            /\ previous_jobs' = previous_jobs \cup {job_data.title}
            /\ todays_job_entries' =
                  IF PostedToday(job_data, today_str)
                  THEN Append(todays_job_entries, job_data)
                  ELSE todays_job_entries
       ELSE UNCHANGED <<new_job_entries, previous_jobs, todays_job_entries>>
    /\ idx' = idx + 1
    /\ pc' = "Extracting"
    /\ UNCHANGED <<day, fileVars, sessions, job_links, job_data, today_str,
                   cycles, fnVars>>

\* The ways a with-block can end: open() raises, or `written` of the lines
\* reach the file; with faults off every open succeeds and every line is
\* written.
WriteOutcomes(lines, faults) ==
    IF faults
    THEN {[opened |-> o, written |-> w] : o \in BOOLEAN, w \in 0..Len(lines)}
    ELSE {[opened |-> TRUE, written |-> Len(lines)]}

\* The ways a read loop can end: after how many rows the reader raises.
ReadOutcomes(file, faults) ==
    IF faults THEN 0..Len(file.rows) ELSE {Len(file.rows)}

\* The two saves of main, each skipped when its list is empty.
Persist(faults) ==
    /\ pc = "Persisting"
    /\ IF new_job_entries # <<>>
       THEN \E w \in WriteOutcomes(HistoryLines(history, new_job_entries), faults) :
               history' = save_to_csv(history, new_job_entries, w.opened, w.written)
       ELSE UNCHANGED history
    /\ IF todays_job_entries # <<>>
       THEN \E y \in ReadOutcomes(todayLog, faults) :
            \E w \in WriteOutcomes(TodayLines(todayLog, todays_job_entries, y), faults) :
               todayLog' = save_todays_jobs(todayLog, todays_job_entries, y,
                                            w.opened, w.written)
       ELSE UNCHANGED todayLog
    /\ pc' = "SessionClosed"
    /\ ResetCycleVars
    /\ UNCHANGED <<day, previous_jobs, sessions, cycles, fnVars>>

\* finally: driver.quit()
DriverQuit ==
    /\ pc = "SessionClosed"
    /\ sessions' = sessions - 1
    /\ pc' = "Sleeping"
    /\ UNCHANGED <<day, fileVars, previous_jobs, cycleVars, cycles, fnVars>>

\* time.sleep(CHECK_INTERVAL)
Sleep ==
    /\ pc = "Sleeping"
    /\ pc' = "Idle"
    /\ UNCHANGED <<day, fileVars, previous_jobs, sessions, cycleVars, cycles,
                   fnVars>>

\* Midnight passes.
Tick(when) ==
    /\ pc \in when
    /\ day < MaxDay
    /\ day' = day + 1
    /\ UNCHANGED <<pc, fileVars, previous_jobs, sessions, cycleVars, cycles,
                   fnVars>>

\* The process is started again, after it was stopped in its sleep or after
\* it terminated: main loads previous_jobs from the history log.
Restart(faults) ==
    /\ pc \in {"Sleeping", "Terminated"}
    /\ \E y \in ReadOutcomes(history, faults) :
          previous_jobs' = LoadPreviousJobs(history, y)
    /\ ResetCycleVars
    /\ pc' = "Idle"
    /\ UNCHANGED <<day, fileVars, sessions, cycles, fnVars>>

AnyState == {"Idle", "Exhausting", "Collecting", "Extracting", "Classifying",
             "Persisting", "SessionClosed", "Sleeping", "Terminated"}

\* A first start with no log on disk.
FirstStart ==
    /\ day = 2
    /\ history = NoFile
    /\ todayLog = NoFile
    /\ previous_jobs = LoadPreviousJobs(NoFile, 0)
    /\ sessions = 0
    /\ job_links = <<>>
    /\ idx = 1
    /\ job_data = NoJob
    /\ new_job_entries = <<>>
    /\ todays_job_entries = <<>>
    /\ today_str = NA
    /\ cycles = 0
    /\ PhasesNotStarted

Init ==
    /\ FirstStart
    /\ pc = "Idle"
    /\ arg = <<>>
    /\ ret = <<>>

Next ==
    \/ SetupDriver(SetupOutcomes)
    \/ LoadAllJobs(LoadOutcomes)
    \/ CollectLinks(SiteListings, BOOLEAN)
    \/ Scrape(SitePagesOf, SiteRaises)
    \/ Classify
    \/ Persist(TRUE)
    \/ DriverQuit
    \/ Sleep
    \/ Tick(AnyState)
    \/ Restart(TRUE)

Spec == Init /\ [][Next]_vars

-----------------------------------------------------------------------------
(* The end-to-end scenario: a site that lists the same two jobs in every   *)
(* cycle, each dated the day it is scraped, and no failure anywhere.       *)
(* Midnight passes only between cycles.                                    *)

E2ETitle == [l \in Links |-> IF l = "job/1" THEN "Editor" ELSE "Colorist"]

E2EListings ==
    {<<HrefCard("job/1"), HrefCard("job/2")>>,
     <<HrefCard("job/2"), HrefCard("job/1")>>,
     <<HrefCard("job/1"), HrefCard("job/2"), HrefCard("job/1")>>,
     <<HrefCard("job/1"), NoAnchorCard, HrefCard("job/2")>>}

E2EPagesOf ==
    [l \in Links, d \in Days |->
        {Page(E2ETitle[l], TRUE, <<Marker, TodayTok>>, "Cut reels")}
            \cup {Page(E2ETitle[l], TRUE, <<Marker, AbsTok(date_formats[f], d)>>,
                       "Cut reels") : f \in 1..Len(date_formats)}]

NextE2E ==
    \/ SetupDriver({"ok"})
    \/ LoadAllJobs({"returns"})
    \/ CollectLinks(E2EListings, {TRUE})
    \/ Scrape(E2EPagesOf, {"nothing"})
    \/ Classify
    \/ Persist(FALSE)
    \/ DriverQuit
    \/ Sleep
    \/ Tick({"Sleeping", "Idle"})
    \/ Restart(FALSE)

SpecE2E == Init /\ [][NextE2E]_vars

-----------------------------------------------------------------------------
(* The functions on their own: the input is drawn in the initial state or  *)
(* by the call, and one step applies the function.                         *)

schedulerVars == <<day, previous_jobs, sessions, cycleVars, cycles>>

\* collect_job_links on any listing page of at most MaxCards cards.
InitCollect ==
    /\ FirstStart
    /\ pc = "call"
    /\ arg \in [job_cards : SeqUpTo(CardKinds, MaxCards), found : BOOLEAN]
    /\ ret = <<>>

RunCollect ==
    /\ pc = "call"
    /\ ret' = collect_job_links(arg.job_cards, arg.found)
    /\ pc' = "return"
    /\ UNCHANGED <<schedulerVars, fileVars, arg, clicks, scroll_attempts,
                   last_height>>

SpecCollect == InitCollect /\ [][RunCollect]_vars

\* scrape_job_details on any detail page, with any step raising.
ScrapePages ==
    {Page(h, r # <<>>, r, d) :
        h \in {NoElement, "Editor", " Editor "},
        r \in {<<>>, <<Marker, TodayTok>>, <<Marker, AbsTok("%b %d %Y", 2)>>,
               <<Marker, OtherTok>>},
        d \in {NoElement, " Cut reels "}}

InitScrape ==
    /\ FirstStart
    /\ pc = "call"
    /\ arg \in [job_link : Links, page : ScrapePages, raises : Raises, now : Days]
    /\ ret = NoJob

RunScrape ==
    /\ pc = "call"
    /\ ret' = scrape_job_details(arg.job_link, arg.page, arg.raises, arg.now)
    /\ pc' = "return"
    /\ UNCHANGED <<schedulerVars, fileVars, arg, clicks, scroll_attempts,
                   last_height>>

SpecScrape == InitScrape /\ [][RunScrape]_vars

\* The records a save function is given when it is called on its own.
BatchJobs ==
    {[title |-> "Editor", link |-> "job/1", date |-> DayStr(2), description |-> NA],
     [title |-> "Editor", link |-> "job/2", date |-> DayStr(2), description |-> NA],
     [title |-> "Colorist", link |-> "job/2", date |-> DayStr(2), description |-> NA]}

Batches == SeqUpTo(BatchJobs, MaxBatch)

InitSave ==
    /\ FirstStart
    /\ pc = "call"
    /\ arg = [job_entries |-> <<>>, yielded |-> 0, opened |-> FALSE, written |-> 0]
    /\ ret = <<>>

\* save_to_csv called with any batch, again and again.
CallSaveToCsv ==
    /\ Len(history.rows) <= MaxRows
    /\ \E job_entries \in Batches :
       \E w \in WriteOutcomes(HistoryLines(history, job_entries), TRUE) :
          /\ history' = save_to_csv(history, job_entries, w.opened, w.written)
          /\ arg' = [job_entries |-> job_entries, yielded |-> 0,
                     opened |-> w.opened, written |-> w.written]
    /\ UNCHANGED <<pc, schedulerVars, todayLog, ret, clicks, scroll_attempts,
                   last_height>>

SpecSaveToCsv == InitSave /\ [][CallSaveToCsv]_vars

\* save_todays_jobs called with any batch, again and again.
CallSaveTodaysJobs ==
    /\ Len(todayLog.rows) <= MaxRows
    /\ \E job_entries \in Batches :
       \E y \in ReadOutcomes(todayLog, TRUE) :
       \E w \in WriteOutcomes(TodayLines(todayLog, job_entries, y), TRUE) :
          /\ todayLog' = save_todays_jobs(todayLog, job_entries, y, w.opened, w.written)
          /\ arg' = [job_entries |-> job_entries, yielded |-> y,
                     opened |-> w.opened, written |-> w.written]
    /\ UNCHANGED <<pc, schedulerVars, history, ret, clicks, scroll_attempts,
                   last_height>>

SpecSaveTodaysJobs == InitSave /\ [][CallSaveTodaysJobs]_vars

\* load_all_jobs on its own: the click phase, then the scroll phase.  pc is
\* click_wait at the while test of click_see_more_button, click_pause in the
\* sleep that follows an intercepted click, scroll_start at the first line of
\* scroll_to_load_all, scroll at its while test, measure after a scroll,
\* return when load_all_jobs has returned and raised when a script call of
\* the scroll phase raised.  arg holds what the browser gave last and the
\* number of scrolls made.
max_clicks == 5

max_scrolls == 20

Heights == 1..MaxHeight

ClickOutcomes == {"clicked", "timeout", "intercepted", "error"}

ScriptOutcomes == {"returns", "raises"}

\* clicks counting every attempt that found the button, intercepted or not.
ClicksAfterAnyClick(outcome, n) ==
    IF outcome \in {"clicked", "intercepted"} THEN n + 1 ELSE n

\* clicks after one pass of the try block.
ClicksAfter(outcome, n) == IF outcome = "clicked" THEN n + 1 ELSE n

\* The height test never ending the loop.
HeightChangedOrNot(new_height, height) == new_height \in Heights

\* The test of line 127, negated: the loop goes on.
HeightChanged(new_height, height) == new_height # height

InitLoadAllJobs ==
    /\ FirstStart
    /\ pc = "click_wait"
    /\ arg = [outcome |-> "none", new_height |-> 0, scrolls |-> 0]
    /\ ret = <<>>

\* One pass of the while loop of click_see_more_button.
ClickAttempt(outcomes) ==
    /\ pc = "click_wait"
    /\ IF clicks < max_clicks
       THEN \E o \in outcomes :
               /\ arg' = [arg EXCEPT !.outcome = o]
               /\ clicks' = ClicksAfter(o, clicks)
               /\ pc' = IF o = "clicked" THEN "click_wait"
                        ELSE IF o = "intercepted" THEN "click_pause"
                        ELSE "scroll_start"
       ELSE /\ pc' = "scroll_start"
            /\ UNCHANGED <<arg, clicks>>
    /\ UNCHANGED <<schedulerVars, fileVars, ret, scroll_attempts, last_height>>

\* time.sleep(2) after ElementClickInterceptedException, then the while test.
ClickPause ==
    /\ pc = "click_pause"
    /\ pc' = "click_wait"
    /\ UNCHANGED <<schedulerVars, fileVars, fnVars>>

\* The first two lines of scroll_to_load_all.
ScrollStart(outcomes) ==
    /\ pc = "scroll_start"
    /\ \E o \in outcomes :
          IF o = "returns"
          THEN /\ last_height' \in Heights
               /\ scroll_attempts' = 0
               /\ pc' = "scroll"
          ELSE /\ pc' = "raised"
               /\ UNCHANGED <<last_height, scroll_attempts>>
    /\ UNCHANGED <<schedulerVars, fileVars, arg, ret, clicks>>

\* The while test of scroll_to_load_all and the scroll to the bottom.
Scroll(outcomes) ==
    /\ pc = "scroll"
    /\ IF scroll_attempts < max_scrolls
       THEN \E o \in outcomes :
               IF o = "returns"
               THEN /\ arg' = [arg EXCEPT !.scrolls = @ + 1]
                    /\ pc' = "measure"
               ELSE /\ pc' = "raised"
                    /\ UNCHANGED arg
       ELSE /\ pc' = "return"
            /\ UNCHANGED arg
    /\ UNCHANGED <<schedulerVars, fileVars, ret, clicks, scroll_attempts,
                   last_height>>

\* The height read after the scroll, and the rest of the loop body.
Measure(outcomes) ==
    /\ pc = "measure"
    /\ \E o \in outcomes :
          IF o = "returns"
          THEN \E new_height \in Heights :
                  /\ arg' = [arg EXCEPT !.new_height = new_height]
                  /\ IF HeightChanged(new_height, last_height)
                     THEN /\ last_height' = new_height
                          /\ scroll_attempts' = scroll_attempts + 1
                          /\ pc' = "scroll"
                     ELSE /\ pc' = "return"
                          /\ UNCHANGED <<last_height, scroll_attempts>>
          ELSE /\ pc' = "raised"
               /\ UNCHANGED <<arg, last_height, scroll_attempts>>
    /\ UNCHANGED <<schedulerVars, fileVars, ret, clicks>>

NextLoadAllJobs ==
    \/ ClickAttempt(ClickOutcomes)
    \/ ClickPause
    \/ ScrollStart(ScriptOutcomes)
    \/ Scroll(ScriptOutcomes)
    \/ Measure(ScriptOutcomes)

SpecLoadAllJobs == InitLoadAllJobs /\ [][NextLoadAllJobs]_vars

\* The program is one thread that takes its next step whenever it has one.
SpecLoadAllJobsFair == SpecLoadAllJobs /\ WF_vars(NextLoadAllJobs)

\* parse_and_format_date on any raw date of at most MaxTokens tokens.
DateTokens ==
    {Marker, TodayTok, YesterdayTok, OtherTok, AbsTok("%b %d %Y", 2),
     AbsTok("%m/%d/%Y", 3)}

InitDate ==
    /\ FirstStart
    /\ pc = "call"
    /\ arg \in [raw_date : SeqUpTo(DateTokens, MaxTokens), now : Days]
    /\ ret = NA

RunDate ==
    /\ pc = "call"
    /\ ret' = parse_and_format_date(arg.raw_date, arg.now)
    /\ pc' = "return"
    /\ UNCHANGED <<schedulerVars, fileVars, arg, clicks, scroll_attempts,
                   last_height>>

SpecDate == InitDate /\ [][RunDate]_vars

\* The identity loads on their own, on a log that is absent or holds its
\* header and at most MaxFileRows rows: rows of records, blank lines, and rows
\* the csv reader cannot decode (a field over its size limit, bytes that are
\* not UTF-8), at which it raises.
Undecodable == <<"<undecodable>">>

LoadJobs ==
    {[title |-> "Editor", link |-> "job/1", date |-> DayStr(2), description |-> NA],
     [title |-> "Colorist", link |-> "job/2", date |-> NA, description |-> NA]}

HistoryFiles ==
    {NoFile} \cup
    {[exists |-> TRUE, rows |-> <<HistoryHeader>> \o r] :
        r \in SeqUpTo({HistoryRow(j) : j \in LoadJobs} \cup {<<>>, Undecodable},
                      MaxFileRows)}

TodayFiles ==
    {NoFile} \cup
    {[exists |-> TRUE, rows |-> <<TodayHeader>> \o r] :
        r \in SeqUpTo({TodayRow(j) : j \in LoadJobs} \cup {<<>>, Undecodable},
                      MaxFileRows)}

\* The rows the reader yields before it raises: those before the first row it
\* cannot decode.
Yielded(rows) ==
    LET bad == {n \in 1..Len(rows) : rows[n] = Undecodable}
    IN  IF bad = {} THEN Len(rows)
        ELSE (CHOOSE n \in bad : \A m \in bad : n <= m) - 1

InitLoad ==
    /\ pc = "call"
    /\ day = 2
    /\ history \in HistoryFiles
    /\ todayLog \in TodayFiles
    /\ previous_jobs = {}
    /\ sessions = 0
    /\ job_links = <<>>
    /\ idx = 1
    /\ job_data = NoJob
    /\ new_job_entries = <<>>
    /\ todays_job_entries = <<>>
    /\ today_str = NA
    /\ cycles = 0
    /\ arg = <<>>
    /\ ret = {}
    /\ PhasesNotStarted

\* main, before the while loop.
LoadHistory ==
    /\ pc = "call"
    /\ previous_jobs' = LoadPreviousJobs(history, Yielded(history.rows))
    /\ pc' = "history loaded"
    /\ UNCHANGED <<day, fileVars, sessions, cycleVars, cycles, fnVars>>

\* save_todays_jobs, before it opens the log to append.
LoadToday ==
    /\ pc = "call"
    /\ ret' = LoadExistingUrls(todayLog, Yielded(todayLog.rows))
    /\ pc' = "today loaded"
    /\ UNCHANGED <<schedulerVars, fileVars, arg, clicks, scroll_attempts,
                   last_height>>

NextLoad == LoadHistory \/ LoadToday

SpecLoad == InitLoad /\ [][NextLoad]_vars

-----------------------------------------------------------------------------
(* Properties *)

\* C1: the history log never holds two data rows with the same title, over
\* any polling cycles and process restarts.
C1_HistoryTitlesUnique == NoDuplicateKeys(history, HistoryHeader)

\* C2: however save_todays_jobs is called, the today log never holds two data
\* rows with the same link.
C2_TodayLinksUnique ==
    \A a, b \in 1..Len(todayLog.rows) :
        /\ todayLog.rows[a] # TodayHeader
        /\ todayLog.rows[a][1] = todayLog.rows[b][1]
        => a = b

\* C3: no failure raised from session acquisition to the saves ends the
\* process: main never terminates, so every cycle comes to its sleep.
C3_FailureNeverTerminates == pc # "Terminated"

\* C4: once a cycle is over no browser session is left open, and never is
\* more than one open.
C4_SessionReleased ==
    /\ pc \in {"Sleeping", "Idle", "Terminated"} => sessions = 0
    /\ sessions <= 1

\* C5: as claimed, calling save_to_csv again and again, with any batches,
\* leaves each title in at most one data row of the history log.
C5_SaveToCsvDeduplicates ==
    \A t \in Titles :
        Cardinality({n \in 1..Len(history.rows) :
                        /\ history.rows[n] # HistoryHeader
                        /\ history.rows[n][1] = t}) <= 1

\* The titles of a batch are pairwise distinct and none is in the log.
FreshBatch(job_entries, file) ==
    /\ \A a, b \in 1..Len(job_entries) :
          job_entries[a].title = job_entries[b].title => a = b
    /\ \A a \in 1..Len(job_entries) :
          job_entries[a].title \notin Keys(file, HistoryHeader)

\* C5, amended: save_to_csv does not deduplicate.  Each call keeps the rows of
\* the log and appends the rows of the batch's records in order, one row per
\* record when the write completes.  So the log stays free of duplicate titles
\* when the batch's titles are pairwise distinct and none is in the log, and
\* a completed call with a repeated or already present title leaves two rows
\* with that title.
C5_SaveToCsvAppendsBatch ==
    [][LET b == arg'.job_entries
           old == DataRows(history, HistoryHeader)
           new == DataRows(history', HistoryHeader)
           more == Len(new) - Len(old)
           complete == arg'.opened /\ arg'.written = Len(HistoryLines(history, b))
       IN  /\ more \in 0..Len(b)
           /\ SubSeq(new, 1, Len(old)) = old
           /\ \A j \in 1..more : new[Len(old) + j] = HistoryRow(b[j])
           /\ complete => more = Len(b)
           /\ NoDuplicateKeys(history, HistoryHeader) /\ FreshBatch(b, history)
                 => NoDuplicateKeys(history', HistoryHeader)
           /\ complete /\ ~FreshBatch(b, history)
                 => ~NoDuplicateKeys(history', HistoryHeader)]_vars

\* A completed call has appended a fresh batch to a log that held rows.
C5_Witness ==
    /\ arg.opened
    /\ arg.job_entries # <<>>
    /\ arg.written = Len(arg.job_entries)
    /\ Len(DataRows(history, HistoryHeader)) > Len(arg.job_entries)
    /\ NoDuplicateKeys(history, HistoryHeader)

\* The data rows held by a log.
RowCount(file, header) == Len(DataRows(file, header))

\* C6: from empty logs, the first cycle against a listing of two never-seen
\* jobs dated today leaves two rows in the history log and two in the today
\* log, and every later cycle against that listing appends none.
C6_TwoRowsThenNone ==
    LET cycleOver == cycles >= 1 /\ pc \in {"SessionClosed", "Sleeping", "Idle"}
    IN  /\ cycles = 0 =>
              RowCount(history, HistoryHeader) = 0 /\ RowCount(todayLog, TodayHeader) = 0
        /\ cycleOver \/ cycles >= 2 =>
              /\ RowCount(history, HistoryHeader) = 2
              /\ RowCount(todayLog, TodayHeader) = 2
              /\ Keys(history, HistoryHeader) = {E2ETitle[l] : l \in Links}
              /\ Keys(todayLog, TodayHeader) = Links

\* The second cycle is over.
C6_Witness ==
    /\ cycles = 2
    /\ pc = "Sleeping"
    /\ RowCount(history, HistoryHeader) = 2
    /\ RowCount(todayLog, TodayHeader) = 2

\* C7: a record is put among today's jobs exactly when it is new and its date
\* is the current date at the moment it is classified.
C7_ClassifiedByCurrentDate ==
    [][pc = "Classifying" /\ pc' = "Extracting"
          => (Len(todays_job_entries') = Len(todays_job_entries) + 1
                <=> /\ IsNewJob(job_data, previous_jobs)
                    /\ job_data.date = DayStr(day))]_vars

AllUnknown(job) == job.title = NA /\ job.date = NA /\ job.description = NA

\* C8: as claimed, whenever a step of scrape_job_details raises, the record
\* returned holds the input link and 'N/A' in its three other fields.
C8_AnyFailureYieldsUnknownRecord ==
    pc = "return" /\ arg.raises # "nothing"
        => ret.link = arg.job_link /\ AllUnknown(ret)

\* What the page gives for each field when its step is reached.
TitleOf(page) == IF page.h1 = NoElement THEN NA ELSE Strip(page.h1)

DateOf(page, now) ==
    IF page.hasDate THEN parse_and_format_date(page.rawDate, now) ELSE NA

\* C8, amended: scrape_job_details always returns a record with the input
\* link.  After a render-wait timeout, or an exception raised before the title
\* is extracted, title, date and description are all 'N/A'; an exception
\* raised at a later step leaves the fields extracted before it populated and
\* only the remaining ones 'N/A'.
C8_FailureKeepsExtractedFields ==
    pc = "return" =>
        /\ ret.link = arg.job_link
        /\ arg.raises \in {"get", "wait_timeout", "wait", "page_source", "title"}
              => AllUnknown(ret)
        /\ arg.raises = "date"
              => /\ ret.title = TitleOf(arg.page)
                 /\ ret.date = NA
                 /\ ret.description = NA
        /\ arg.raises = "description"
              => /\ ret.title = TitleOf(arg.page)
                 /\ ret.date = DateOf(arg.page, arg.now)
                 /\ ret.description = NA

\* The step after the title raised, and the title came back.
C8_Witness ==
    /\ pc = "return"
    /\ arg.raises = "date"
    /\ arg.page.hasDate
    /\ ret.title = "Editor"
    /\ ret.date = NA

\* C9: the record of a detail page with a heading and no date marker has the
\* heading as its title and 'N/A' as its date; a record with date 'N/A' is
\* never put among today's jobs, is put among the new jobs when its title is
\* new, and the loop goes on to the next link; and a save of the new jobs that
\* completes writes a row for each of them.
C9_MissingDateMarker ==
    [][/\ pc = "Extracting" /\ pc' = "Classifying" =>
             \A page \in SitePages, raises \in SiteRaises :
                 /\ job_data' = scrape_job_details(job_links[idx], page, raises, day)
                 /\ page.h1 # NoElement /\ ~page.hasDate /\ raises = "nothing"
                 => job_data'.title = Strip(page.h1) /\ job_data'.date = NA
       /\ pc = "Classifying" /\ pc' # "Classifying" /\ job_data.date = NA =>
             /\ todays_job_entries' = todays_job_entries
             /\ job_data.title \notin previous_jobs
                   => new_job_entries' = Append(new_job_entries, job_data)
             /\ pc' = "Extracting"
             /\ idx' = idx + 1
             /\ job_links' = job_links
       /\ pc = "Persisting" /\ pc' # "Persisting"
          /\ Len(history'.rows) - Len(history.rows)
                 = Len(HistoryLines(history, new_job_entries)) =>
             \A j \in Range(new_job_entries) :
                 HistoryRow(j) \in Range(history'.rows)]_vars

\* A record with a title and no date was accepted as new, not as posted
\* today, and a link is left to extract.
C9_Witness ==
    /\ pc = "Extracting"
    /\ idx <= Len(job_links)
    /\ job_data.title = "Editor"
    /\ job_data.date = NA
    /\ job_data \in Range(new_job_entries)
    /\ job_data \notin Range(todays_job_entries)

\* The hrefs of the cards that have one.
Hrefs(job_cards) == {c.href : c \in {x \in Range(job_cards) : x.k = "href"}}

\* The position of the first card with href l.
FirstCard(job_cards, l) ==
    CHOOSE n \in 1..Len(job_cards) :
        /\ job_cards[n] = HrefCard(l)
        /\ \A m \in 1..(n - 1) : job_cards[m] # HrefCard(l)

\* C10: collect_job_links returns each href of the cards once, in the order
\* of first appearance; cards without a reference are passed over.
C10_UniqueLinksInFirstSeenOrder ==
    pc = "return" /\ arg.found =>
        /\ Range(ret) = Hrefs(arg.job_cards)
        /\ Len(ret) = Cardinality(Hrefs(arg.job_cards))
        /\ \A a, b \in 1..Len(ret) :
              a < b => FirstCard(arg.job_cards, ret[a]) < FirstCard(arg.job_cards, ret[b])

\* Four cards, the first and the last with the same reference and one with no
\* anchor: the two references are returned, in the order first seen.
C10_Witness ==
    /\ pc = "return"
    /\ arg.found
    /\ arg.job_cards = <<HrefCard("job/2"), NoAnchorCard, HrefCard("job/1"),
                         HrefCard("job/2")>>
    /\ ret = <<"job/2", "job/1">>

\* The first fields of the rows under the header that are records.
WellFormedKeys(file) ==
    {file.rows[n][1] : n \in {m \in 2..Len(file.rows) :
                                 file.rows[m] \notin {<<>>, Undecodable}}}

\* C11: an identity load of a missing log gives the empty set, and a load of a
\* log with a malformed row gives the first field of every well-formed row,
\* those before and those after the malformed one.
C11_LoadSkipsOnlyMalformedRow ==
    /\ pc = "history loaded" => previous_jobs = WellFormedKeys(history)
    /\ pc = "today loaded" => ret = WellFormedKeys(todayLog)

\* C12: as claimed, every raw date with the token Today gives the current
\* date, and every raw date with the token Yesterday gives the day before it,
\* a raw date with both tokens included.
C12_RelativeTokens ==
    pc = "return" =>
        /\ TodayTok \in Range(arg.raw_date) => ret = DayStr(arg.now)
        /\ YesterdayTok \in Range(arg.raw_date) => ret = DayStr(arg.now - 1)

\* C12, amended: every raw date with the token Today gives the current date,
\* with or without the token Yesterday; every raw date with the token
\* Yesterday and without the token Today gives the day before the current
\* date; both with or without the "Posted on:" prefix, wherever the token
\* stands.
C12_TodayTestedFirst ==
    pc = "return" =>
        /\ TodayTok \in Range(arg.raw_date) => ret = DayStr(arg.now)
        /\ YesterdayTok \in Range(arg.raw_date) /\ TodayTok \notin Range(arg.raw_date)
              => ret = DayStr(arg.now - 1)

\* A raw date with the prefix and both tokens, Yesterday first, came back as
\* the current date.
C12_Witness ==
    /\ pc = "return"
    /\ arg.raw_date = <<Marker, YesterdayTok, TodayTok>>
    /\ ret = DayStr(arg.now)

\* A log after a step holds what it held before the step, as its first rows.
KeptAsPrefix(old, new) ==
    /\ old.exists => new.exists
    /\ Len(old.rows) <= Len(new.rows)
    /\ SubSeq(new.rows, 1, Len(old.rows)) = old.rows

\* The step is the start of a new process, which builds its title set from
\* the history log.
ProcessStart ==
    /\ pc \in {"Sleeping", "Terminated"}
    /\ pc' = "Idle"
    /\ \E y \in 0..Len(history.rows) : previous_jobs' = LoadPreviousJobs(history, y)

\* C13: every step, the saves included, keeps the rows of the history log and
\* of the today log as the first rows of the file, and every step of a running
\* process keeps every title of previous_jobs in it.
C13_LogsAndSetsOnlyGrow ==
    [][/\ KeptAsPrefix(history, history')
       /\ KeptAsPrefix(todayLog, todayLog')
       /\ previous_jobs \subseteq previous_jobs' \/ ProcessStart]_vars

\* Two cycles have written to logs that held rows: the history log holds two
\* records under its header, the today log one, the title set two titles.
C13_Witness ==
    /\ cycles = 2
    /\ pc = "Sleeping"
    /\ Len(history.rows) = 3
    /\ history.rows[1] = HistoryHeader
    /\ history.rows[2][1] # history.rows[3][1]
    /\ Len(todayLog.rows) = 2
    /\ previous_jobs = {history.rows[2][1], history.rows[3][1]}

\* C14: whatever the outcomes of the attempts, the click phase comes to its
\* end.
C14_ClickPhaseReturns == <>(pc \notin {"click_wait", "click_pause"})

\* C15: clicks never exceeds max_clicks and counts the clicks made; a timeout
\* or an error other than an interception ends the click phase with no click
\* made; an interception leaves clicks as it was and the attempt is made
\* again after the pause; once the phase has ended no click is made.
C15_ClickBudget ==
    [][/\ clicks <= max_clicks /\ clicks' <= max_clicks
       /\ pc = "click_wait" /\ clicks < max_clicks =>
             /\ arg'.outcome \in ClickOutcomes
             /\ arg'.outcome = "clicked" => clicks' = clicks + 1
             /\ arg'.outcome \in {"timeout", "error"}
                   => clicks' = clicks /\ pc' = "scroll_start"
             /\ arg'.outcome = "intercepted"
                   => clicks' = clicks /\ pc' = "click_pause"
       /\ pc = "click_wait" /\ clicks >= max_clicks =>
             clicks' = clicks /\ pc' = "scroll_start"
       /\ pc = "click_pause" => clicks' = clicks /\ pc' = "click_wait"
       /\ pc \notin {"click_wait", "click_pause"} =>
             clicks' = clicks /\ pc' \notin {"click_wait", "click_pause"}]_vars

\* The budget is spent: max_clicks clicks were made and the phase has ended.
C15_Witness ==
    /\ pc = "scroll_start"
    /\ clicks = max_clicks
    /\ arg.outcome = "clicked"

\* C16: never more than max_scrolls scrolls are made; a scroll after which the
\* height read equals last_height ends the phase, one after which it differs
\* is followed by the next scroll unless max_scrolls scrolls were made; once
\* the phase has ended no scroll is made.
C16_ScrollBudget ==
    [][/\ arg.scrolls <= max_scrolls /\ arg'.scrolls <= max_scrolls
       /\ pc = "scroll" => arg.scrolls = scroll_attempts
       /\ pc = "scroll" /\ arg.scrolls < max_scrolls =>
             \/ pc' = "measure" /\ arg'.scrolls = arg.scrolls + 1
             \/ pc' = "raised" /\ arg'.scrolls = arg.scrolls
       /\ pc = "scroll" /\ arg.scrolls >= max_scrolls =>
             pc' = "return" /\ arg'.scrolls = arg.scrolls
       /\ pc = "measure" /\ pc' # "raised" =>
             /\ arg'.scrolls = arg.scrolls
             /\ arg'.new_height = last_height => pc' = "return"
             /\ arg'.new_height # last_height
                   => pc' = "scroll" /\ last_height' = arg'.new_height
       /\ pc \in {"return", "raised"} =>
             arg'.scrolls = arg.scrolls /\ pc' = pc]_vars

\* The height changed after each of max_scrolls scrolls and the phase ended.
C16_Witness ==
    /\ pc = "return"
    /\ arg.scrolls = max_scrolls
    /\ scroll_attempts = max_scrolls
    /\ arg.new_height = last_height

\* The links of the records in the history log.
HistoryLinks == {r[2] : r \in Range(DataRows(history, HistoryHeader))}

\* C17: every link with a row in the today log has a row in the history log,
\* whatever became of the history write.  (The logs change in the Persisting
\* step only, so what holds at its end holds until the next one.)
C17_TodayRowsHaveHistoryRows == Keys(todayLog, TodayHeader) \subseteq HistoryLinks

\* C18: when a cycle is over, every title of previous_jobs has a row in the
\* history log, whatever became of the history write.
C18_AcceptedTitlesAreOnDisk ==
    pc \in {"SessionClosed", "Sleeping", "Idle"}
        => previous_jobs \subseteq Keys(history, HistoryHeader)

\* The first row of a log that holds rows is its header, and no other row is.
HeaderFirstAndOnce(file, header) ==
    file.rows # <<>> =>
        /\ file.rows[1] = header
        /\ \A n \in 2..Len(file.rows) : file.rows[n] # header

\* C19: after any saves, failed saves and restarts, each log that holds rows
\* has its header as first row and nowhere else, so that the identity loads,
\* which skip the first row, skip no record.
C19_HeaderFirstAndOnce ==
    /\ HeaderFirstAndOnce(history, HistoryHeader)
    /\ HeaderFirstAndOnce(todayLog, TodayHeader)

====
